---- MODULE Spec2Model ----
(***************************************************************************)
(* Model of the data collection run of strategic-investments-gr:           *)
(* src/scripts/collect-data.ts (main, loadExistingData, saveData,          *)
(* enrichLocationsWithCoordinates), src/scripts/claude-api.ts              *)
(* (filterRelevantDecisions, extractInvestmentData,                        *)
(* deduplicateInvestments) and src/scripts/diavgeia-api.ts                 *)
(* (checkIfRevision).                                                      *)
(*                                                                         *)
(* A run of main is a sequence of steps, one per await point; the          *)
(* snapshot file data/investments.json is the only state that survives     *)
(* from one run to the next.                                               *)
(***************************************************************************)
EXTENDS Integers, Sequences, FiniteSets, TLC

(***************************************************************************)
(* Bounds of the model.                                                    *)
(***************************************************************************)
MaxRuns == 2
MaxDecisions == 2
\* longest primary list and longest secondary list given to one call of
\* deduplicateInvestments
MaxPrimary == 21
MaxSecondary == 2
\* longest item list given to one call of processBatch
MaxItems == 5

(***************************************************************************)
(* Value domains.  "" stands for a missing / empty string field.           *)
(***************************************************************************)
ADAs == {"A1", "A2"}
URLs == {"U1"}

\* names and beneficiaries are character sequences (substring matching)
NameD == <<"h", "o", "t", "e", "l">>
NameM == <<"H", "o", "t", "e", "l">>
NameX == <<"p", "o", "r", "t">>
BenD == <<"e", "p", "s">>
BenX == <<"z", "e", "t", "a">>

\* batch size of the extraction fan-out
batchSize == 3
\* cap of the shortlist handed to the arbitration call
shortlistCap == 20

(***************************************************************************)
(* Sequence helpers (Array.prototype.filter / some / slice).               *)
(***************************************************************************)
Range(s) == {s[i] : i \in 1..Len(s)}

Min(a, b) == IF a < b THEN a ELSE b

Max(a, b) == IF a > b THEN a ELSE b

Abs(a) == IF a < 0 THEN -a ELSE a

Slice(s, n) == SubSeq(s, 1, Min(Len(s), n))

\* all sequences over S of length at most n
SeqUpTo(S, n) == UNION {[1..k -> S] : k \in 0..n}

\* -------------------------------------------------------------------------
\* JavaScript Map: insertion-ordered list of <<key, value>> entries
\* -------------------------------------------------------------------------
MapHas(m, k) == \E i \in 1..Len(m) : m[i][1] = k

MapGet(m, k) == m[CHOOSE i \in 1..Len(m) : m[i][1] = k][2]

MapSet(m, k, v) ==
    IF MapHas(m, k)
    THEN [i \in 1..Len(m) |-> IF m[i][1] = k THEN <<k, v>> ELSE m[i]]
    ELSE Append(m, <<k, v>>)

MapKeys(m) == {m[i][1] : i \in 1..Len(m)}

\* -------------------------------------------------------------------------
\* String operations on character sequences
\* -------------------------------------------------------------------------
LowerChar(c) == IF c = "H" THEN "h" ELSE c

toLowerCase(s) == [i \in 1..Len(s) |-> LowerChar(s[i])]

substring10(s) == SubSeq(s, 1, Min(Len(s), 10))

includes(s, t) ==
    \E i \in 1..(Len(s) + 1) :
        /\ i + Len(t) - 1 <= Len(s)
        /\ SubSeq(s, i, i + Len(t) - 1) = t

(***************************************************************************)
(* Data.                                                                   *)
(*   Investment: ada = reference.diavgeiaADA, url = reference.ministryUrl, *)
(*   revisesADA = reference.revisesADA, loc = state of its location entry  *)
(*   ("none": no textLocation, "text": textLocation without coordinates,   *)
(*   "geo": lat/lon present).                                              *)
(*   Decision: a candidate of the Diavgeia search; subjectKw = the subject *)
(*   contains a revision keyword, subjectADAs = the ADA-shaped tokens of   *)
(*   the subject, relatedDecisions = extraFieldValues.relatedDecisions.    *)
(***************************************************************************)
Investment(ada, url, rev, name, ben, amount, loc) ==
    [ada |-> ada, url |-> url, revisesADA |-> rev, name |-> name,
     beneficiary |-> ben, totalAmount |-> amount, loc |-> loc]

Decision(ada, kw, sadas, cvid, related) ==
    [ada |-> ada, subjectKw |-> kw, subjectADAs |-> sadas,
     correctedVersionId |-> cvid, relatedDecisions |-> related,
     revisesADA |-> ""]

\* -------------------------------------------------------------------------
\* The snapshot file data/investments.json
\* -------------------------------------------------------------------------
NoFile == [state |-> "absent", investments |-> <<>>, revisionsExcluded |-> <<>>]

\* the file between the truncating open and the end of the write
PartialFile == [state |-> "partial", investments |-> <<>>, revisionsExcluded |-> <<>>]

\* loadExistingData: null when the file is missing or does not parse
loadExistingData(f) ==
    IF f.state = "ok"
    THEN [isNull |-> FALSE, investments |-> f.investments,
          revisionsExcluded |-> f.revisionsExcluded]
    ELSE [isNull |-> TRUE, investments |-> <<>>, revisionsExcluded |-> <<>>]

\* the optional revisionsMap argument of saveData: <<>> when not passed
NoMapArg == <<>>

\* saveData: the document written by writeFileSync
saveData(data, revisionsMapArg) ==
    [state |-> "ok",
     investments |-> data,
     revisionsExcluded |->
        IF revisionsMapArg # NoMapArg
        THEN [i \in 1..Len(revisionsMapArg[1]) |->
                [original |-> revisionsMapArg[1][i][1],
                 replacedBy |-> revisionsMapArg[1][i][2]]]
        ELSE <<>>]

\* -------------------------------------------------------------------------
\* checkIfRevision (diavgeia-api.ts).  lookup is the ADA returned by the
\* corrected-version lookup, "" when the call fails or returns no ada.
\* -------------------------------------------------------------------------
\* variant: a code found in the subject is preferred to relatedDecisions
checkIfRevision_subjectFirst(decision, lookup) ==
    LET isRevisionBySubject == decision.subjectKw
        hasCorrectingId == decision.correctedVersionId
        isExplicitlyMarkedAsRevision == Len(decision.relatedDecisions) > 0
        isRevision == isRevisionBySubject \/ hasCorrectingId
                        \/ isExplicitlyMarkedAsRevision
        potentialADAs == SelectSeq(decision.subjectADAs,
                                   LAMBDA a : a # decision.ada)
        fromSubject == IF isRevisionBySubject /\ Len(potentialADAs) > 0
                       THEN potentialADAs[1] ELSE ""
        fromRelated == IF fromSubject = "" /\ isExplicitlyMarkedAsRevision
                       THEN decision.relatedDecisions[1] ELSE fromSubject
        revisedADA == IF fromRelated = "" /\ hasCorrectingId
                      THEN lookup ELSE fromRelated
    IN  IF isRevision
        THEN [isRevision |-> TRUE, revisesADA |-> revisedADA]
        ELSE [isRevision |-> FALSE, revisesADA |-> ""]

checkIfRevision(decision, lookup) ==
    LET isRevisionBySubject == decision.subjectKw
        hasCorrectingId == decision.correctedVersionId
        isExplicitlyMarkedAsRevision == Len(decision.relatedDecisions) > 0
        isRevision == isRevisionBySubject \/ hasCorrectingId
                        \/ isExplicitlyMarkedAsRevision
        fromRelated == IF isExplicitlyMarkedAsRevision
                       THEN decision.relatedDecisions[1] ELSE ""
        potentialADAs == SelectSeq(decision.subjectADAs,
                                   LAMBDA a : a # decision.ada)
        fromSubject == IF fromRelated = "" /\ isRevisionBySubject
                          /\ Len(potentialADAs) > 0
                       THEN potentialADAs[1] ELSE fromRelated
        revisedADA == IF fromSubject = "" /\ hasCorrectingId
                      THEN lookup ELSE fromSubject
    IN  IF isRevision
        THEN [isRevision |-> TRUE, revisesADA |-> revisedADA]
        ELSE [isRevision |-> FALSE, revisesADA |-> ""]

\* the corrected-version lookup is called for this decision (lines 78-88)
LookupCalled(decision) ==
    /\ decision.correctedVersionId
    /\ checkIfRevision(decision, "").revisesADA = ""

RECURSIVE CheckRevisionsLoop(_, _, _, _)
\* main, lines 235-247: the loop over decisionsToProcess; returns the
\* revisions map and the decisions annotated with revisesADA
CheckRevisionsLoop(ds, lookups, i, acc) ==
    IF i > Len(ds) THEN acc
    ELSE LET info == checkIfRevision(ds[i], lookups[i])
             hit == info.isRevision /\ info.revisesADA # ""
         IN  CheckRevisionsLoop(ds, lookups, i + 1,
                [map |-> IF hit THEN MapSet(acc.map, info.revisesADA, ds[i].ada)
                         ELSE acc.map,
                 decisions |-> Append(acc.decisions,
                     IF hit THEN [ds[i] EXCEPT !.revisesADA = info.revisesADA]
                     ELSE ds[i])])

\* -------------------------------------------------------------------------
\* filterRelevantDecisions (claude-api.ts): response of the classifier call
\*   [kind |-> "ok", adas |-> set of codes]   a JSON array was returned
\*   [kind |-> "unparsable"]                  no JSON array in the answer
\*   [kind |-> "error"]                       the API call throws
\* -------------------------------------------------------------------------
filterRelevantDecisions(decisions, response) ==
    IF response.kind = "ok"
    THEN SelectSeq(decisions, LAMBDA d : d.ada \in response.adas)
    ELSE <<>>

\* variant: no relevant decision is dropped
FilterSuperseded_keepAll(relevantDecisions, revisionsMap) == relevantDecisions

\* main, lines 257-266: drop the decisions that are keys of revisionsMap
FilterSuperseded(relevantDecisions, revisionsMap) ==
    SelectSeq(relevantDecisions, LAMBDA d : ~MapHas(revisionsMap, d.ada))

\* main, lines 269-271
remainingRevised(filteredDecisions, revisionsMap) ==
    SelectSeq(filteredDecisions, LAMBDA d : d.ada \in MapKeys(revisionsMap))

\* -------------------------------------------------------------------------
\* extractInvestmentData (claude-api.ts).  answer is the outcome of the
\* extraction call after its retries:
\*   kind = "null"   error, retries exhausted or unparsable answer
\*   kind = "ok"     the parsed JSON: hasReference = it has a reference
\*                   object, ada = its reference.diavgeiaADA
\* The result is <<>> for null and <<investment>> otherwise.
\* -------------------------------------------------------------------------
Answer(kind, hasRef, ada, name, ben, amount, loc) ==
    [kind |-> kind, hasReference |-> hasRef, ada |-> ada, name |-> name,
     beneficiary |-> ben, totalAmount |-> amount, loc |-> loc]

NullAnswer == Answer("null", FALSE, "", <<>>, <<>>, 0, "none")

extractInvestmentData(decision, answer) ==
    IF answer.kind = "null" THEN <<>>
    ELSE LET ada == IF ~answer.hasReference THEN decision.ada
                    ELSE IF answer.ada = "" THEN decision.ada
                    ELSE answer.ada
         IN  <<Investment(ada, "", "", answer.name, answer.beneficiary,
                          answer.totalAmount, answer.loc)>>

\* main, lines 289-303: the processFn handed to processBatch
processDecision(decision, answer) ==
    LET result == extractInvestmentData(decision, answer)
    IN  IF result # <<>> /\ decision.revisesADA # ""
        THEN <<[result[1] EXCEPT !.revisesADA = decision.revisesADA]>>
        ELSE result

\* variant: the null results are not filtered out
Flatten_keepNulls(results) ==
    [i \in 1..Len(results) |->
        IF results[i] = <<>>
        THEN Investment("", "", "", <<>>, <<>>, 0, "none")
        ELSE results[i][1]]

RECURSIVE Flatten(_)
\* investments.filter(Boolean)
Flatten(results) ==
    IF results = <<>> THEN <<>> ELSE Head(results) \o Flatten(Tail(results))

\* -------------------------------------------------------------------------
\* deduplicateInvestments (claude-api.ts).  verdicts[i] is the outcome of
\* the arbitration call for the i-th record of ministryOnly:
\*   kind = "fail"  the call throws or its answer does not parse
\*   kind = "ok"    the parsed verdict {isDuplicate, matchedADA, confidence}
\* -------------------------------------------------------------------------
Verdict(kind, isDup, matched, conf) ==
    [kind |-> kind, isDuplicate |-> isDup, matchedADA |-> matched,
     confidence |-> conf]

ministryOnly(ministryInvestments) ==
    SelectSeq(ministryInvestments, LAMBDA inv : inv.ada = "")

nameMatch(a, b) ==
    /\ a # <<>>
    /\ b # <<>>
    /\ \/ includes(toLowerCase(a), substring10(toLowerCase(b)))
       \/ includes(toLowerCase(b), substring10(toLowerCase(a)))

amountSimilar(d, m) ==
    /\ m > 0
    /\ d > 0
    /\ 5 * Abs(d - m) < Max(d, m)

\* variant: the shortlist is not capped
potentialMatches_uncapped(diavgeiaInvestments, ministryInv) ==
    SelectSeq(diavgeiaInvestments, LAMBDA d :
        \/ nameMatch(d.name, ministryInv.name)
        \/ nameMatch(d.beneficiary, ministryInv.beneficiary)
        \/ amountSimilar(d.totalAmount, ministryInv.totalAmount))

potentialMatches(diavgeiaInvestments, ministryInv) ==
    Slice(SelectSeq(diavgeiaInvestments, LAMBDA d :
              \/ nameMatch(d.name, ministryInv.name)
              \/ nameMatch(d.beneficiary, ministryInv.beneficiary)
              \/ amountSimilar(d.totalAmount, ministryInv.totalAmount)),
          shortlistCap)

\* the arbitration call is made for this ministry record
Arbitrated(diavgeiaInvestments, ministryInv) ==
    /\ ministryInv.url # ""
    /\ potentialMatches(diavgeiaInvestments, ministryInv) # <<>>

RECURSIVE duplicatesMap(_, _, _, _, _)
\* lines 717-849: the loop that fills duplicatesMap (ministry URL -> ADA)
duplicatesMap(diavgeiaInvestments, mOnly, verdicts, i, acc) ==
    IF i > Len(mOnly) THEN acc
    ELSE LET v == verdicts[i]
             accept == /\ Arbitrated(diavgeiaInvestments, mOnly[i])
                       /\ v.kind = "ok"
                       /\ v.isDuplicate
                       /\ v.matchedADA # ""
                       /\ v.confidence # "low"
         IN  duplicatesMap(diavgeiaInvestments, mOnly, verdicts, i + 1,
                IF accept THEN MapSet(acc, mOnly[i].url, v.matchedADA) ELSE acc)

\* variant: the unique ministry investments are put first
deduplicateInvestments_ministryFirst(diavgeiaInvestments, ministryInvestments, verdicts) ==
    LET mOnly == ministryOnly(ministryInvestments)
        dups == duplicatesMap(diavgeiaInvestments, mOnly, verdicts, 1, <<>>)
        uniqueMinistryInvestments ==
            SelectSeq(mOnly, LAMBDA inv : inv.url = "" \/ ~MapHas(dups, inv.url))
    IN  uniqueMinistryInvestments \o diavgeiaInvestments

deduplicateInvestments(diavgeiaInvestments, ministryInvestments, verdicts) ==
    LET mOnly == ministryOnly(ministryInvestments)
        dups == duplicatesMap(diavgeiaInvestments, mOnly, verdicts, 1, <<>>)
        uniqueMinistryInvestments ==
            SelectSeq(mOnly, LAMBDA inv : inv.url = "" \/ ~MapHas(dups, inv.url))
    IN  diavgeiaInvestments \o uniqueMinistryInvestments

\* -------------------------------------------------------------------------
\* main, lines 333-359: Step 3, combine the two sources
\* -------------------------------------------------------------------------
CombineSources(diavgeiaInvestments, ministryInvestments, verdicts) ==
    IF diavgeiaInvestments # <<>> /\ ministryInvestments # <<>>
    THEN deduplicateInvestments(diavgeiaInvestments, ministryInvestments, verdicts)
    ELSE IF diavgeiaInvestments # <<>> THEN diavgeiaInvestments
    ELSE ministryInvestments

\* main, lines 361-385: the ids reported as duplicates (warning only)
duplicateIDs(combined) ==
    {i \in 1..Len(combined) :
        \/ /\ combined[i].ada # ""
           /\ \E j \in 1..(i - 1) : combined[j].ada = combined[i].ada
        \/ /\ combined[i].url # ""
           /\ \E j \in 1..(i - 1) : combined[j].url = combined[i].url}

\* -------------------------------------------------------------------------
\* main, lines 387-423: merge with the existing data
\* -------------------------------------------------------------------------
existingInvestmentsById(existing) ==
    {<<"ada", existing[i].ada>> : i \in {j \in 1..Len(existing) : existing[j].ada # ""}}
    \cup
    {<<"url", existing[i].url>> : i \in {j \in 1..Len(existing) : existing[j].url # ""}}

\* variant: no new investment is filtered against the existing ids
newInvestmentsToAdd_keepAll(combined, existing) == combined

newInvestmentsToAdd(combined, existing) ==
    SelectSeq(combined, LAMBDA inv :
        /\ ~(inv.ada # "" /\ <<"ada", inv.ada>> \in existingInvestmentsById(existing))
        /\ ~(inv.url # "" /\ <<"url", inv.url>> \in existingInvestmentsById(existing)))

\* variant: the new investments are put before the existing ones
MergeWithPrior_newFirst(combined, ignoreExisting, f) ==
    LET existingData == loadExistingData(f)
    IN  IF ~ignoreExisting /\ ~existingData.isNull
           /\ Len(existingData.investments) > 0
        THEN newInvestmentsToAdd(combined, existingData.investments)
                \o existingData.investments
        ELSE combined

\* variant: the existing data is merged in whatever the flag says
MergeWithPrior_alwaysMerge(combined, ignoreExisting, f) ==
    LET existingData == loadExistingData(f)
    IN  IF ~existingData.isNull /\ Len(existingData.investments) > 0
        THEN existingData.investments
                \o newInvestmentsToAdd(combined, existingData.investments)
        ELSE combined

MergeWithPrior(combined, ignoreExisting, f) ==
    LET existingData == loadExistingData(f)
    IN  IF ~ignoreExisting /\ ~existingData.isNull
           /\ Len(existingData.investments) > 0
        THEN existingData.investments
                \o newInvestmentsToAdd(combined, existingData.investments)
        ELSE combined

\* -------------------------------------------------------------------------
\* enrichLocationsWithCoordinates: geocoded[i] = the geocoding call for the
\* location of the i-th investment returns coordinates
\* -------------------------------------------------------------------------
enrichLocationsWithCoordinates(investments, geocoded) ==
    [i \in 1..Len(investments) |->
        IF investments[i].loc = "text" /\ geocoded[i]
        THEN [investments[i] EXCEPT !.loc = "geo"]
        ELSE investments[i]]

(***************************************************************************)
(* Inputs of a run: what the collaborators may answer.                     *)
(***************************************************************************)
Distinct(ds) == \A i, j \in 1..Len(ds) : i # j => ds[i].ada # ds[j].ada

\* candidates of the Diavgeia search (the registry code is unique)
DecisionPool ==
    {Decision(a, FALSE, <<>>, FALSE, r) : a \in ADAs, r \in {<<>>, <<"A1">>}}

DecisionLists == {ds \in SeqUpTo(DecisionPool, MaxDecisions) : Distinct(ds)}

Response(kind, adas) == [kind |-> kind, adas |-> adas]

ClassifierResponses ==
    {Response("ok", S) : S \in SUBSET ADAs}
        \cup {Response("unparsable", {}), Response("error", {})}

\* answers of the extraction call: none, a document without a reference
\* object, a document whose reference names the code A1
ExtractAnswers ==
    {NullAnswer,
     Answer("ok", FALSE, "", NameD, BenD, 100, "none"),
     Answer("ok", TRUE, "A1", NameD, BenD, 110, "none")}

\* records collected from the ministry website
MinistryPool ==
    {Investment("", u, "", NameM, BenD, 100, "text") : u \in URLs}
        \cup {Investment("", u, "", NameX, BenX, 500, "text") : u \in URLs}

\* the ministry website lists no project page or one
MinistryLists == {<<>>} \cup {<<m>> : m \in MinistryPool}

Verdicts ==
    {Verdict("fail", FALSE, "", "low"),
     Verdict("ok", FALSE, "", "high"),
     Verdict("ok", TRUE, "", "high"),
     Verdict("ok", TRUE, "A1", "low"),
     Verdict("ok", TRUE, "A1", "high"),
     Verdict("ok", TRUE, "A2", "medium")}

Params(ignoreExisting, skipDiavgeia, skipMinistry) ==
    [ignoreExisting |-> ignoreExisting, skipDiavgeia |-> skipDiavgeia,
     skipMinistry |-> skipMinistry]

ParamsSet == {Params(i, d, m) : i \in BOOLEAN, d \in BOOLEAN, m \in BOOLEAN}

(***************************************************************************)
(* State.                                                                  *)
(***************************************************************************)
VARIABLES
    file,                 \* data/investments.json
    pc,                   \* position of main
    run,                  \* number of runs started
    apiKey,               \* process.env.ANTHROPIC_API_KEY is set
    params,               \* parseArgs()
    existingADAs,
    decisions,            \* result of queryDiavgeiaAPI
    decisionsToProcess,
    revisionsMap,
    relevantDecisions,
    filteredDecisions,
    extractCalls,         \* candidates extractInvestmentData was called for
    results,              \* processBatch: results of the finished batches
    diavgeiaInvestments,
    ministryInvestments,
    newBatch,             \* combinedInvestments before the merge
    combinedInvestments,
    written,              \* saveData completed in this run
    prior,                \* the file as it was when the run started
    relevantADAs,         \* the codes in the answer of the relevance classifier
    world,                \* fixed answers of the collaborators (re-run study)
    \* one batch of processBatch / collectMinistryInvestments (Promise.all)
    tasks,                \* the extraction tasks of the batch
    batchState,           \* "idle", "running", "resolved", "rejected"
    batchResults,         \* what Promise.all resolved with
    \* one call of deduplicateInvestments
    dedupePc,             \* "idle", "loop", "returned"
    dedupeDiavgeia,       \* its argument diavgeiaInvestments
    dedupeMinistry,       \* its argument ministryInvestments
    processed,            \* records of ministryOnly gone through the loop
    verdictLog,           \* per processed record: the arbitration outcome
    arbCalls,             \* per processed record: shortlist length of each call
    dedupeOut,            \* the returned list
    \* one call of checkIfRevision
    revPc,                \* "idle", "start", "lookup", "returned", "thrown"
    revDecision,          \* its argument
    revLookups,           \* corrected-version lookups made
    revResult,            \* the returned object
    revResponse,          \* what the corrected-version lookup answered
    \* one call of processBatch
    pbPc,                 \* "idle", "loop", "await", "sleep", "returned"
    pbItems,              \* its argument items
    pbBatchSize,          \* its argument batchSize
    pbI,                  \* the loop variable i
    pbBatch,              \* the tasks handed to Promise.all
    pbResults,            \* results
    pbProcessed,          \* processed
    pbReturned,           \* per item: what processFn returned for it
    pbBatches,            \* batches started
    pbSleeps,             \* sleep(1000) calls completed
    pbOvertaken           \* a task finished before a task ahead of it

\* the state of a run of main
mainVars == <<file, pc, run, apiKey, params, existingADAs, decisions,
              decisionsToProcess, revisionsMap, relevantDecisions,
              filteredDecisions, extractCalls, results, diavgeiaInvestments,
              ministryInvestments, newBatch, combinedInvestments, written,
              prior, world, relevantADAs>>

batchVars == <<tasks, batchState, batchResults>>

dedupeVars == <<dedupePc, dedupeDiavgeia, dedupeMinistry, processed,
                verdictLog, arbCalls, dedupeOut>>

revisionVars == <<revPc, revDecision, revLookups, revResult, revResponse>>

loopVars == <<pbPc, pbItems, pbBatchSize, pbI, pbBatch, pbResults,
              pbProcessed, pbReturned, pbBatches, pbSleeps, pbOvertaken>>

\* the state of the studies of single calls, untouched by a run of main
callVars == <<batchVars, dedupeVars, revisionVars, loopVars>>

vars == <<mainVars, callVars>>

BatchIdle ==
    /\ tasks = <<>>
    /\ batchState = "idle"
    /\ batchResults = <<>>

DedupeIdle ==
    /\ dedupePc = "idle"
    /\ dedupeDiavgeia = <<>>
    /\ dedupeMinistry = <<>>
    /\ processed = 0
    /\ verdictLog = <<>>
    /\ arbCalls = <<>>
    /\ dedupeOut = <<>>

RevisionIdle ==
    /\ revPc = "idle"
    /\ revDecision = <<>>
    /\ revLookups = 0
    /\ revResult = <<>>
    /\ revResponse = <<>>

LoopIdle ==
    /\ pbPc = "idle"
    /\ pbItems = <<>>
    /\ pbBatchSize = 0
    /\ pbI = 0
    /\ pbBatch = <<>>
    /\ pbResults = <<>>
    /\ pbProcessed = 0
    /\ pbReturned = <<>>
    /\ pbBatches = 0
    /\ pbSleeps = 0
    /\ pbOvertaken = FALSE

\* no single call is under study
CallsIdle == BatchIdle /\ DedupeIdle /\ RevisionIdle /\ LoopIdle

\* main before its first run
MainIdle ==
    /\ file = NoFile
    /\ pc = "idle"
    /\ run = 0
    /\ apiKey = TRUE
    /\ params = Params(FALSE, FALSE, FALSE)
    /\ existingADAs = {}
    /\ decisions = <<>>
    /\ decisionsToProcess = <<>>
    /\ revisionsMap = <<>>
    /\ relevantDecisions = <<>>
    /\ filteredDecisions = <<>>
    /\ extractCalls = {}
    /\ results = <<>>
    /\ diavgeiaInvestments = <<>>
    /\ ministryInvestments = <<>>
    /\ newBatch = <<>>
    /\ combinedInvestments = <<>>
    /\ written = FALSE
    /\ prior = NoFile
    /\ relevantADAs = {}

Terminal == {"idle", "done", "failed", "crashed"}

NoWorld == [on |-> FALSE]

\* a collaborator answer v is admitted for the input named k
Admits(k, v) == IF world.on THEN world[k] = v ELSE TRUE

Init ==
    /\ file = NoFile
    /\ pc = "idle"
    /\ run = 0
    /\ apiKey = TRUE
    /\ params = Params(FALSE, FALSE, FALSE)
    /\ existingADAs = {}
    /\ decisions = <<>>
    /\ decisionsToProcess = <<>>
    /\ revisionsMap = <<>>
    /\ relevantDecisions = <<>>
    /\ filteredDecisions = <<>>
    /\ extractCalls = {}
    /\ results = <<>>
    /\ diavgeiaInvestments = <<>>
    /\ ministryInvestments = <<>>
    /\ newBatch = <<>>
    /\ combinedInvestments = <<>>
    /\ written = FALSE
    /\ prior = NoFile
    /\ relevantADAs = {}
    /\ world = NoWorld
    /\ CallsIdle

(***************************************************************************)
(* main, lines 167-194: credential check, parseArgs, load existing data.   *)
(***************************************************************************)
ExistingADAsOf(p, f) ==
    IF ~p.ignoreExisting /\ ~loadExistingData(f).isNull
    THEN {inv.ada : inv \in {x \in Range(loadExistingData(f).investments) : x.ada # ""}}
    ELSE {}

\* variant: the run goes on without the credential
credentialCheck_skipped(key) == "diavgeia"

\* lines 168-174: without ANTHROPIC_API_KEY the process exits with code 1
credentialCheck(key) == IF key THEN "diavgeia" ELSE "failed"

StartRun ==
    /\ pc \in Terminal
    /\ run < MaxRuns
    /\ run' = run + 1
    /\ \E k \in BOOLEAN, p \in ParamsSet :
        /\ Admits("apiKey", k) /\ Admits("params", p)
        /\ apiKey' = k
        /\ params' = p
        /\ pc' = credentialCheck(k)
        /\ existingADAs' = IF k THEN ExistingADAsOf(p, file) ELSE {}
    /\ prior' = file
    /\ decisions' = <<>>
    /\ decisionsToProcess' = <<>>
    /\ revisionsMap' = <<>>
    /\ relevantDecisions' = <<>>
    /\ filteredDecisions' = <<>>
    /\ extractCalls' = {}
    /\ results' = <<>>
    /\ diavgeiaInvestments' = <<>>
    /\ ministryInvestments' = <<>>
    /\ newBatch' = <<>>
    /\ combinedInvestments' = <<>>
    /\ written' = FALSE
    /\ relevantADAs' = {}
    /\ UNCHANGED <<file, world, callVars>>

(***************************************************************************)
(* main, lines 207-232: query the Diavgeia API, skip the known codes.      *)
(***************************************************************************)
\* variant: the known codes are not filtered out
SkipExisting_none(ds, ignoreExisting, existing) == ds

SkipExisting(ds, ignoreExisting, existing) ==
    IF ~ignoreExisting /\ Cardinality(existing) > 0
    THEN SelectSeq(ds, LAMBDA d : d.ada \notin existing)
    ELSE ds

QueryDiavgeia ==
    /\ pc = "diavgeia"
    /\ IF params.skipDiavgeia
       THEN /\ pc' = "ministry"
            /\ UNCHANGED <<decisions, decisionsToProcess>>
       ELSE \E ds \in DecisionLists :
                /\ Admits("decisions", ds)
                /\ decisions' = ds
                /\ decisionsToProcess' =
                      SkipExisting(ds, params.ignoreExisting, existingADAs)
                /\ pc' = IF Len(ds) = 0
                         THEN (IF params.skipMinistry THEN "failed" ELSE "ministry")
                         ELSE IF Len(decisionsToProcess') > 0 THEN "revisions"
                         ELSE "ministry"
    /\ UNCHANGED <<file, run, apiKey, params, existingADAs,
                   revisionsMap, relevantDecisions, filteredDecisions,
                   extractCalls, results, diavgeiaInvestments, ministryInvestments,
                   newBatch, combinedInvestments, written, prior, world, callVars,
                   relevantADAs>>

(***************************************************************************)
(* main, lines 233-249: check every decision for being a revision.         *)
(***************************************************************************)
CheckRevisions ==
    /\ pc = "revisions"
    /\ \E lookups \in [1..Len(decisionsToProcess) -> ADAs \cup {""}] :
        /\ \A i \in 1..Len(decisionsToProcess) :
              /\ ~LookupCalled(decisionsToProcess[i]) => lookups[i] = ""
              /\ IF world.on THEN lookups[i] = "" ELSE TRUE
        /\ revisionsMap' = CheckRevisionsLoop(decisionsToProcess, lookups, 1,
                              [map |-> <<>>, decisions |-> <<>>]).map
        /\ decisionsToProcess' = CheckRevisionsLoop(decisionsToProcess, lookups, 1,
                              [map |-> <<>>, decisions |-> <<>>]).decisions
    /\ pc' = "classify"
    /\ UNCHANGED <<file, run, apiKey, params, existingADAs,
                   decisions, relevantDecisions, filteredDecisions,
                   extractCalls, results, diavgeiaInvestments, ministryInvestments,
                   newBatch, combinedInvestments, written, prior, world, callVars,
                   relevantADAs>>

(***************************************************************************)
(* main, lines 251-279: relevance filter, then drop revised decisions.     *)
(* An API error of the classifier call is not caught by                    *)
(* filterRelevantDecisions: it reaches main().catch, which exits with 1.   *)
(***************************************************************************)
ClassifyRelevance ==
    /\ pc = "classify"
    /\ \E resp \in ClassifierResponses :
        /\ Admits("response", resp)
        /\ IF resp.kind = "error"
           THEN /\ pc' = "failed"
                /\ UNCHANGED <<relevantDecisions, filteredDecisions,
                               relevantADAs>>
           ELSE /\ relevantADAs' = resp.adas
                /\ relevantDecisions' =
                      filterRelevantDecisions(decisionsToProcess, resp)
                /\ filteredDecisions' =
                      FilterSuperseded(relevantDecisions', revisionsMap)
                /\ pc' = IF Len(relevantDecisions') > 0 THEN "extract"
                         ELSE "ministry"
    /\ UNCHANGED <<file, run, apiKey, params, existingADAs,
                   decisions, decisionsToProcess, revisionsMap,
                   extractCalls, results, diavgeiaInvestments, ministryInvestments,
                   newBatch, combinedInvestments, written, prior, world, callVars>>

(***************************************************************************)
(* main, lines 281-309: processBatch over filteredDecisions, one batch of  *)
(* batchSize extraction tasks per step; after the last batch the nulls are *)
(* filtered out.                                                           *)
(***************************************************************************)
ExtractBatch ==
    /\ pc = "extract"
    /\ LET from == Len(results) + 1
           to == Min(Len(filteredDecisions), Len(results) + batchSize)
       IN  \E answers \in [from..to -> ExtractAnswers] :
            /\ \A i \in from..to :
                  IF world.on
                  THEN answers[i] = world.answers[filteredDecisions[i].ada]
                  ELSE TRUE
            /\ results' = results \o
                  [k \in 1..(to - from + 1) |->
                      processDecision(filteredDecisions[from + k - 1],
                                      answers[from + k - 1])]
            /\ extractCalls' = extractCalls
                  \cup {filteredDecisions[i].ada : i \in from..to}
            /\ IF to >= Len(filteredDecisions)
               THEN /\ diavgeiaInvestments' = Flatten(results')
                    /\ pc' = "ministry"
               ELSE /\ UNCHANGED diavgeiaInvestments
                    /\ pc' = "extract"
    /\ UNCHANGED <<file, run, apiKey, params, existingADAs,
                   decisions, decisionsToProcess, revisionsMap,
                   relevantDecisions, filteredDecisions, ministryInvestments,
                   newBatch, combinedInvestments, written, prior, world, callVars,
                   relevantADAs>>

(***************************************************************************)
(* main, lines 321-331: collect the ministry website investments.          *)
(***************************************************************************)
CollectMinistry ==
    /\ pc = "ministry"
    /\ IF params.skipMinistry
       THEN UNCHANGED ministryInvestments
       ELSE \E ms \in MinistryLists :
                /\ Admits("ministry", ms)
                /\ ministryInvestments' = ms
    /\ pc' = "combine"
    /\ UNCHANGED <<file, run, apiKey, params, existingADAs,
                   decisions, decisionsToProcess, revisionsMap,
                   relevantDecisions, filteredDecisions, extractCalls, results,
                   diavgeiaInvestments, newBatch, combinedInvestments,
                   written, prior, world, callVars,
                   relevantADAs>>

(***************************************************************************)
(* main, lines 333-423: combine and deduplicate the two sources, validate, *)
(* merge with the existing data.                                           *)
(***************************************************************************)
Combine ==
    /\ pc = "combine"
    /\ IF diavgeiaInvestments = <<>> /\ ministryInvestments = <<>>
       THEN /\ pc' = "failed"
            /\ UNCHANGED <<newBatch, combinedInvestments>>
       ELSE LET mOnly == ministryOnly(ministryInvestments)
            IN  \E verdicts \in [1..Len(mOnly) -> Verdicts] :
                    /\ \A i \in 1..Len(mOnly) :
                          IF diavgeiaInvestments # <<>>
                             /\ Arbitrated(diavgeiaInvestments, mOnly[i])
                          THEN (IF world.on
                                THEN verdicts[i] = world.verdicts[mOnly[i].url]
                                ELSE TRUE)
                          ELSE verdicts[i] = Verdict("fail", FALSE, "", "low")
                    /\ newBatch' = CombineSources(diavgeiaInvestments,
                                                  ministryInvestments, verdicts)
                    /\ combinedInvestments' =
                          MergeWithPrior(newBatch', params.ignoreExisting, file)
                    /\ pc' = "geocode"
    /\ UNCHANGED <<file, run, apiKey, params, existingADAs,
                   decisions, decisionsToProcess, revisionsMap,
                   relevantDecisions, filteredDecisions, extractCalls, results,
                   diavgeiaInvestments, ministryInvestments, written, prior,
                   world, callVars,
                   relevantADAs>>

(***************************************************************************)
(* main, lines 425-430: geocode the locations without coordinates.         *)
(***************************************************************************)
Geocode ==
    /\ pc = "geocode"
    /\ \E googleKey \in BOOLEAN :
        /\ Admits("googleKey", googleKey)
        /\ IF googleKey
           THEN \E geocoded \in [1..Len(combinedInvestments) -> BOOLEAN] :
                    /\ \A i \in 1..Len(combinedInvestments) :
                          IF combinedInvestments[i].loc = "text"
                          THEN Admits("geocoded", geocoded[i])
                          ELSE ~geocoded[i]
                    /\ combinedInvestments' =
                          enrichLocationsWithCoordinates(combinedInvestments, geocoded)
           ELSE UNCHANGED combinedInvestments
    /\ pc' = "save"
    /\ UNCHANGED <<file, run, apiKey, params, existingADAs,
                   decisions, decisionsToProcess, revisionsMap,
                   relevantDecisions, filteredDecisions, extractCalls, results,
                   diavgeiaInvestments, ministryInvestments, newBatch,
                   written, prior, world, callVars,
                   relevantADAs>>

(***************************************************************************)
(* saveData, lines 82-114: writeFileSync opens the file with truncation    *)
(* and then writes the document; an error is caught and logged, and main   *)
(* goes on to its summary and ends normally.                               *)
(***************************************************************************)
SaveOpen ==
    /\ pc = "save"
    /\ file' = PartialFile
    /\ pc' = "writing"
    /\ UNCHANGED <<run, apiKey, params, existingADAs,
                   decisions, decisionsToProcess, revisionsMap,
                   relevantDecisions, filteredDecisions, extractCalls, results,
                   diavgeiaInvestments, ministryInvestments, newBatch,
                   combinedInvestments, written, prior, world, callVars,
                   relevantADAs>>

SaveWrite ==
    /\ pc = "writing"
    /\ file' = saveData(combinedInvestments, NoMapArg)
    /\ written' = TRUE
    /\ pc' = "done"
    /\ UNCHANGED <<run, apiKey, params, existingADAs,
                   decisions, decisionsToProcess, revisionsMap,
                   relevantDecisions, filteredDecisions, extractCalls, results,
                   diavgeiaInvestments, ministryInvestments, newBatch,
                   combinedInvestments, prior, world, callVars,
                   relevantADAs>>

\* the write throws (mkdir or open fails: file untouched; write fails: file
\* left incomplete)
SaveError ==
    /\ pc \in {"save", "writing"}
    /\ pc' = "done"
    /\ UNCHANGED <<file, run, apiKey, params, existingADAs,
                   decisions, decisionsToProcess, revisionsMap,
                   relevantDecisions, filteredDecisions, extractCalls, results,
                   diavgeiaInvestments, ministryInvestments, newBatch,
                   combinedInvestments, written, prior, world, callVars,
                   relevantADAs>>

\* the process is killed: its memory is lost, the file stays as it is
Crash ==
    /\ pc \notin Terminal
    /\ pc' = "crashed"
    /\ existingADAs' = {}
    /\ decisions' = <<>>
    /\ decisionsToProcess' = <<>>
    /\ revisionsMap' = <<>>
    /\ relevantDecisions' = <<>>
    /\ filteredDecisions' = <<>>
    /\ extractCalls' = {}
    /\ results' = <<>>
    /\ diavgeiaInvestments' = <<>>
    /\ ministryInvestments' = <<>>
    /\ newBatch' = <<>>
    /\ combinedInvestments' = <<>>
    /\ relevantADAs' = {}
    /\ UNCHANGED <<file, run, apiKey, params, written, prior, world, callVars>>

Next ==
    \/ StartRun
    \/ QueryDiavgeia
    \/ CheckRevisions
    \/ ClassifyRelevance
    \/ ExtractBatch
    \/ CollectMinistry
    \/ Combine
    \/ Geocode
    \/ SaveOpen
    \/ SaveWrite
    \/ SaveError
    \/ Crash

Spec == Init /\ [][Next]_vars

(***************************************************************************)
(* Re-run study: the collaborators give the same answers in every run      *)
(* (world is fixed by Init), no write error and no crash happens.          *)
(***************************************************************************)
RerunVerdicts ==
    {Verdict("fail", FALSE, "", "low"),
     Verdict("ok", FALSE, "", "high"),
     Verdict("ok", TRUE, "A1", "high")}

Worlds ==
    {[on |-> TRUE, apiKey |-> TRUE, params |-> p, decisions |-> ds,
      response |-> resp, answers |-> ans, ministry |-> ms, verdicts |-> vs,
      googleKey |-> g, geocoded |-> TRUE] :
        p \in {q \in ParamsSet : ~q.ignoreExisting},
        ds \in DecisionLists,
        resp \in ClassifierResponses \ {Response("unparsable", {})},
        ans \in [ADAs -> ExtractAnswers],
        ms \in MinistryLists,
        vs \in [URLs -> RerunVerdicts],
        g \in BOOLEAN}

InitRerun ==
    /\ file = NoFile
    /\ pc = "idle"
    /\ run = 0
    /\ apiKey = TRUE
    /\ params = Params(FALSE, FALSE, FALSE)
    /\ existingADAs = {}
    /\ decisions = <<>>
    /\ decisionsToProcess = <<>>
    /\ revisionsMap = <<>>
    /\ relevantDecisions = <<>>
    /\ filteredDecisions = <<>>
    /\ extractCalls = {}
    /\ results = <<>>
    /\ diavgeiaInvestments = <<>>
    /\ ministryInvestments = <<>>
    /\ newBatch = <<>>
    /\ combinedInvestments = <<>>
    /\ written = FALSE
    /\ prior = NoFile
    /\ relevantADAs = {}
    /\ world \in Worlds
    /\ CallsIdle

NextRerun ==
    \/ StartRun
    \/ QueryDiavgeia
    \/ CheckRevisions
    \/ ClassifyRelevance
    \/ ExtractBatch
    \/ CollectMinistry
    \/ Combine
    \/ Geocode
    \/ SaveOpen
    \/ SaveWrite

SpecRerun == InitRerun /\ [][NextRerun]_vars

(***************************************************************************)
(* Vocabulary of the properties.                                           *)
(***************************************************************************)
\* the run has written its snapshot
RunWritten == pc = "done" /\ written

\* the records of the prior snapshot, as loadExistingData reads them
PriorInvestments == loadExistingData(prior).investments

CodesOf(invs) == {inv.ada : inv \in {x \in Range(invs) : x.ada # ""}}

\* same identity: same registry code or same source URL
SameIdentity(a, b) ==
    \/ a.ada # "" /\ a.ada = b.ada
    \/ a.url # "" /\ a.url = b.url

\* new is old, possibly with the coordinates of its location filled in
GeoRefines(old, new) ==
    \/ new = old
    \/ old.loc = "text" /\ new = [old EXCEPT !.loc = "geo"]

\* the candidate at index j of filteredDecisions was extracted into a record
\* that carries the candidate's own code
ExtractedAt(j) ==
    /\ j \in 1..Len(results)
    /\ results[j] # <<>>
    /\ results[j][1].ada = filteredDecisions[j].ada

Edge(x, y) == [original |-> x, replacedBy |-> y]

\* the revision edges applied in this run: the entries of revisionsMap whose
\* superseding candidate was extracted
AppliedEdges ==
    {Edge(revisionsMap[i][1], revisionsMap[i][2]) :
        i \in {k \in 1..Len(revisionsMap) :
                 \E j \in 1..Len(filteredDecisions) :
                    /\ filteredDecisions[j].ada = revisionsMap[k][2]
                    /\ ExtractedAt(j)}}

(***************************************************************************)
(* Properties.                                                             *)
(***************************************************************************)

\* C1: if the prior snapshot has a record with code X and the batch has a
\* candidate Y whose relatedDecisions starts with X, and Y is classified
\* relevant and extracted, then the written snapshot contains Y, does not
\* contain X, and its revisionsExcluded contains {original: X, replacedBy: Y}.
C1_RevisionReplacesPrior ==
    RunWritten =>
        \A j \in 1..Len(filteredDecisions) :
            LET y == filteredDecisions[j]
            IN  (/\ ExtractedAt(j)
                 /\ y.relatedDecisions # <<>>
                 /\ y.relatedDecisions[1] \in CodesOf(PriorInvestments)
                 /\ y.relatedDecisions[1] # y.ada)
                => /\ y.ada \in CodesOf(file.investments)
                   /\ y.relatedDecisions[1] \notin CodesOf(file.investments)
                   /\ Edge(y.relatedDecisions[1], y.ada)
                        \in Range(file.revisionsExcluded)

\* C2: no-resurrection: in a written snapshot no record carries a code that
\* is the original of a revision edge of this run or of the prior runs.
\* (Stated for the runs in which every extracted record carries the code of
\* its candidate.)
C2_NoResurrection ==
    (RunWritten /\ \A j \in 1..Len(results) : results[j] # <<>> => ExtractedAt(j))
        => \A x \in {e.original : e \in AppliedEdges}
                    \cup {e.original : e \in Range(file.revisionsExcluded)}
                    \cup {e.original : e \in Range(prior.revisionsExcluded)} :
              x \notin CodesOf(file.investments)

\* C3: no two records of the snapshot file carry the same non-empty
\* registry code.
C3_NoDuplicateCodes ==
    file.state = "ok" =>
        \A i, j \in 1..Len(file.investments) :
            (i # j /\ file.investments[i].ada # "")
                => file.investments[i].ada # file.investments[j].ada

\* C4: idempotent re-run: a run that follows a run with identical inputs
\* writes the same investments list as the run before it.
C4_IdempotentRerun ==
    (RunWritten /\ run >= 2 /\ prior.state = "ok")
        => file.investments = prior.investments

\* C5: FilterSuperseded drops a relevant candidate A that is the target of a
\* revision edge A -> B only if B is itself in the relevance-filtered set.
C5_DropOnlyIfSupersederRelevant ==
    pc \in {"extract", "ministry", "combine", "geocode", "save", "writing", "done"} =>
        \A i \in 1..Len(relevantDecisions) :
            LET a == relevantDecisions[i]
            IN  (/\ MapHas(revisionsMap, a.ada)
                 /\ \A k \in 1..Len(relevantDecisions) :
                        relevantDecisions[k].ada # MapGet(revisionsMap, a.ada))
                => a \in Range(filteredDecisions)

\* the run merged its batch with a non-empty prior snapshot
Merged ==
    /\ RunWritten
    /\ ~params.ignoreExisting
    /\ Len(PriorInvestments) > 0

\* C6 (as claimed): when a record of the new batch has the identity of a
\* record of the prior snapshot (and another content), the written snapshot
\* contains the new record and not the prior version.
C6_NewReplacesPrior ==
    Merged =>
        \A n \in Range(newBatch), e \in Range(PriorInvestments) :
            (SameIdentity(n, e) /\ n.totalAmount # e.totalAmount)
                => /\ \E k \in 1..Len(file.investments) :
                        GeoRefines(n, file.investments[k])
                   /\ ~\E k \in 1..Len(file.investments) :
                        GeoRefines(e, file.investments[k])

\* C6 (amended): when a record of the new batch has the identity of a record
\* of the prior snapshot, the written snapshot keeps the prior version at its
\* place (coordinates may have been filled in) and no record added after the
\* prior records has the identity of a prior record.
C6_PriorWinsOverNew ==
    Merged =>
        /\ Len(file.investments) >= Len(PriorInvestments)
        /\ \A n \in Range(newBatch), k \in 1..Len(PriorInvestments) :
              SameIdentity(n, PriorInvestments[k])
                => GeoRefines(PriorInvestments[k], file.investments[k])
        /\ \A k \in (Len(PriorInvestments) + 1)..Len(file.investments) :
              \A e \in Range(PriorInvestments) :
                  ~SameIdentity(file.investments[k], e)

C6_Witness ==
    /\ Merged
    /\ \E n \in Range(newBatch), e \in Range(PriorInvestments) :
          SameIdentity(n, e) /\ n.totalAmount # e.totalAmount

\* indexes of the prior records whose identity does not occur in the batch
KeptIdx ==
    {k \in 1..Len(PriorInvestments) :
        \A n \in Range(newBatch) : ~SameIdentity(n, PriorInvestments[k])}

\* C7 (as claimed): without the fresh-start flag every prior record whose
\* identity is not in the new batch is in the written snapshot with identical
\* content and in the same order, and every new record comes after the prior
\* records.
C7_PriorKeptIdentical ==
    Merged =>
        /\ Len(file.investments) >= Len(PriorInvestments)
        /\ \A k \in KeptIdx : file.investments[k] = PriorInvestments[k]
        /\ \A k \in (Len(PriorInvestments) + 1)..Len(file.investments) :
              \E n \in Range(newBatch) : GeoRefines(n, file.investments[k])

\* C7 (amended): without the fresh-start flag every prior record whose
\* identity is not in the new batch is in the written snapshot in the same
\* order and with identical content, except that the coordinates of a
\* location that had none may have been filled in by geocoding; every new
\* record comes after the prior records.
C7_PriorKeptModuloGeocoding ==
    Merged =>
        /\ Len(file.investments) >= Len(PriorInvestments)
        /\ \A k \in KeptIdx :
              GeoRefines(PriorInvestments[k], file.investments[k])
        /\ \A k \in (Len(PriorInvestments) + 1)..Len(file.investments) :
              \E n \in Range(newBatch) : GeoRefines(n, file.investments[k])

C7_Witness ==
    /\ Merged
    /\ Len(file.investments) > Len(PriorInvestments)
    /\ \E k \in KeptIdx :
          /\ PriorInvestments[k].loc = "text"
          /\ file.investments[k].loc = "geo"

\* C8: the revisionsExcluded list of a written snapshot contains every
\* revision edge applied in the run and every edge of the prior snapshot's
\* list.
C8_EdgesAccumulate ==
    RunWritten =>
        /\ \A e \in AppliedEdges : e \in Range(file.revisionsExcluded)
        /\ \A e \in Range(prior.revisionsExcluded) :
              e \in Range(file.revisionsExcluded)

\* C9: at every point of a run the snapshot file holds either the complete
\* prior snapshot or the complete new snapshot.
C9_AtomicPersist ==
    \/ file = prior
    \/ written /\ file = saveData(combinedInvestments, NoMapArg)

\* C10: in a run without the fresh-start flag no extraction call is made for
\* a primary-source candidate whose code is the registry code of a record of
\* the prior snapshot.
C10_KnownCodesNotExtracted ==
    ~params.ignoreExisting =>
        \A d \in Range(decisions) :
            d.ada \in CodesOf(PriorInvestments) => d.ada \notin extractCalls

C10_Witness ==
    /\ pc = "done"
    /\ ~params.ignoreExisting
    /\ extractCalls # {}
    /\ \E d \in Range(decisions) : d.ada \in CodesOf(PriorInvestments)

\* the candidates of this run whose extraction returned a record
NonNull == {k \in 1..Len(results) : results[k] # <<>>}

\* the candidate at index j contributes no record to the new records of the
\* run: the Diavgeia records are exactly the non-null results, and every new
\* record is a ministry record or the result of another candidate
NoContribution(j) ==
    /\ results[j] = <<>>
    /\ Len(diavgeiaInvestments) = Cardinality(NonNull)
    /\ \A n \in Range(newBatch) :
          \/ n \in Range(ministryInvestments)
          \/ \E k \in NonNull : k # j /\ n = results[k][1]

\* C11 (as claimed): if extraction returns null for a candidate, no record
\* for it is among the new records of the run, and every record of the prior
\* snapshot is present unchanged in the written snapshot.
C11_PriorRetainedUnchanged ==
    RunWritten =>
        \A j \in 1..Len(results) :
            results[j] = <<>>
                => /\ NoContribution(j)
                   /\ \A k \in 1..Len(PriorInvestments) :
                         \E m \in 1..Len(file.investments) :
                             file.investments[m] = PriorInvestments[k]

\* C11 (amended): in a run without the fresh-start flag, if extraction
\* returns null for a candidate, no record for it is among the new records
\* of the run, and every record of the prior snapshot is at its place in the
\* written snapshot, unchanged except that the coordinates of a location
\* that had none may have been filled in by geocoding.
C11_RetentionWithoutFreshStart ==
    (RunWritten /\ ~params.ignoreExisting) =>
        \A j \in 1..Len(results) :
            results[j] = <<>>
                => /\ NoContribution(j)
                   /\ Len(file.investments) >= Len(PriorInvestments)
                   /\ \A k \in 1..Len(PriorInvestments) :
                         GeoRefines(PriorInvestments[k], file.investments[k])

C11_Witness ==
    /\ RunWritten
    /\ ~params.ignoreExisting
    /\ Len(PriorInvestments) > 0
    /\ \E j \in 1..Len(results) : results[j] = <<>>
    /\ NonNull # {}

\* C13: an error raised by an external call (revision lookup, relevance
\* classification, extraction, arbitration) never terminates the run: the
\* run fails only for a fatal precondition (no credential, no candidate and
\* no record from any source).
C13_ExternalErrorNeverTerminates ==
    [][/\ pc \in {"revisions", "classify", "extract"} => pc' # "failed"
       /\ (pc = "combine"
            /\ (diavgeiaInvestments # <<>> \/ ministryInvestments # <<>>))
                => pc' # "failed"]_vars

maxRetries == 5

\* the fraction 1 (the threshold of source.perc > 1)
PercOne == 10000

Sources == {"diavgeia", "ministry"}

\* outcome of one client.messages.create call: a 429 error, another error,
\* an answer that does not parse, an answer that parses
Outcomes == {"rateLimit", "error", "unparsable", "ok"}

\* the perc values of the fundingSource list of a parsed answer
FundingAnswers == {<<>>, <<7000, 3000>>, <<700000, 300000>>}

\* let backoffTime = 2000
initialBackoff == 2000

\* the retry-after header of a 429 response: absent, or a number of seconds
\* written in decimal digits
RetryAfterHeaders == {<<>>, <<7>>}

RECURSIVE parseInt(_)
\* parseInt(h, 10) of a string of decimal digits
parseInt(h) ==
    IF h = <<>> THEN 0 ELSE 10 * parseInt(SubSeq(h, 1, Len(h) - 1)) + h[Len(h)]

Task(source) ==
    [source |-> source, retryCount |-> 0, calls |-> 0, retriedAfter |-> {},
     lastOutcome |-> "", status |-> "pending", answer |-> <<>>,
     result |-> <<>>, backoffTime |-> initialBackoff, lastHeader |-> <<>>,
     lastWait |-> 0]

\* variant: the computed delay is used even when the header is present
retryAfter_computed(header, backoffTime) == backoffTime

\* lines 405-407: the header in preference to the computed delay
retryAfter(header, backoffTime) ==
    IF header # <<>> THEN parseInt(header) * 1000 ELSE backoffTime

\* extractMinistryInvestmentData, lines 640-652
normalizeFundingSource(fs) ==
    [i \in 1..Len(fs) |->
        IF fs[i] > 0 /\ fs[i] > PercOne THEN fs[i] \div 100 ELSE fs[i]]

\* processInvestmentPage: the second pass over the percentages
fixFundingSource(fs) ==
    [i \in 1..Len(fs) |->
        LET once == IF fs[i] > 0 /\ fs[i] > PercOne
                    THEN fs[i] \div 100 ELSE fs[i]
        IN  IF fs[i] > 0 /\ once > PercOne THEN once \div 100 ELSE once]

\* the record returned for a parsed answer: extractInvestmentData only
\* defaults a missing fundingSource to []; the ministry path normalises in
\* extractMinistryInvestmentData and again in processInvestmentPage
parsedRecord(source, funding) ==
    [source |-> source,
     fundingSource |->
        IF source = "ministry"
        THEN fixFundingSource(normalizeFundingSource(funding))
        ELSE funding]

\* variant: every error is retried
catchHandler_retryAny(task, outcome, header) ==
    IF task.retryCount < maxRetries
    THEN [task EXCEPT !.retryCount = @ + 1,
                      !.retriedAfter = @ \cup {outcome},
                      !.lastHeader = header,
                      !.lastWait = retryAfter(header, task.backoffTime),
                      !.backoffTime = @ * 2]
    ELSE [task EXCEPT !.status = "returned", !.result = <<>>]

\* the outer catch of the retry loop (lines 400-422 and 660-682)
catchHandler(task, outcome, header) ==
    IF outcome = "rateLimit" /\ task.retryCount < maxRetries
    THEN [task EXCEPT !.retryCount = @ + 1,
                      !.retriedAfter = @ \cup {outcome},
                      !.lastHeader = header,
                      !.lastWait = retryAfter(header, task.backoffTime),
                      !.backoffTime = @ * 2]
    ELSE [task EXCEPT !.status = "returned", !.result = <<>>]

\* one iteration of while (retryCount <= maxRetries)
attempt(task, outcome, funding, header) ==
    LET t == [task EXCEPT !.calls = @ + 1, !.lastOutcome = outcome]
    IN  IF outcome = "ok"
        THEN [t EXCEPT !.status = "returned", !.answer = funding,
                       !.result = <<parsedRecord(t.source, funding)>>]
        ELSE IF outcome = "unparsable"
        THEN [t EXCEPT !.status = "returned", !.result = <<>>]
        ELSE catchHandler(t, outcome, header)

BatchAttempt ==
    /\ batchState = "running"
    /\ \E i \in 1..Len(tasks), outcome \in Outcomes, funding \in FundingAnswers,
          header \in RetryAfterHeaders :
        /\ tasks[i].status = "pending"
        /\ outcome # "ok" => funding = <<>>
        /\ outcome # "rateLimit" => header = <<>>
        /\ tasks' = [tasks EXCEPT ![i] =
                        attempt(tasks[i], outcome, funding, header)]
    /\ UNCHANGED <<mainVars, batchState, batchResults, dedupeVars, revisionVars,
                   loopVars>>

\* Promise.all settles: rejected if a task threw, else the results in order
BatchSettle ==
    /\ batchState = "running"
    /\ \/ \E i \in 1..Len(tasks) : tasks[i].status = "thrown"
       \/ \A i \in 1..Len(tasks) : tasks[i].status = "returned"
    /\ IF \E i \in 1..Len(tasks) : tasks[i].status = "thrown"
       THEN /\ batchState' = "rejected"
            /\ UNCHANGED batchResults
       ELSE /\ batchState' = "resolved"
            /\ batchResults' = [i \in 1..Len(tasks) |-> tasks[i].result]
    /\ UNCHANGED <<mainVars, tasks, dedupeVars, revisionVars, loopVars>>

InitBatch ==
    /\ MainIdle
    /\ world = NoWorld
    /\ DedupeIdle
    /\ RevisionIdle
    /\ LoopIdle
    /\ tasks \in {[i \in 1..n |-> Task(src)] : n \in 1..batchSize, src \in Sources}
    /\ batchState = "running"
    /\ batchResults = <<>>

NextBatch ==
    \/ BatchAttempt
    \/ BatchSettle

SpecBatch == InitBatch /\ [][NextBatch]_vars

\* C12: an extraction task retries only after a rate-limit error and at
\* most maxRetries times; it returns null without throwing as soon as an
\* attempt fails with another error or yields an unparsable answer, and
\* after the retries are exhausted; the batch is never rejected and keeps
\* the results of the other tasks.
C12_RetryOnlyOnRateLimit ==
    /\ \A i \in 1..Len(tasks) :
          LET t == tasks[i]
          IN  /\ t.status # "thrown"
              /\ t.retriedAfter \subseteq {"rateLimit"}
              /\ t.retryCount <= maxRetries
              /\ t.calls <= maxRetries + 1
              /\ t.lastOutcome \in {"error", "unparsable"}
                    => (t.status = "returned" /\ t.result = <<>>)
              /\ (t.lastOutcome = "rateLimit" /\ t.calls = maxRetries + 1)
                    => (t.status = "returned" /\ t.result = <<>>)
              /\ (t.lastOutcome = "rateLimit" /\ t.calls <= maxRetries)
                    => t.status = "pending"
    /\ batchState # "rejected"
    /\ batchState = "resolved"
          => batchResults = [i \in 1..Len(tasks) |-> tasks[i].result]

C12_Witness ==
    /\ batchState = "resolved"
    /\ \E i, j, k \in 1..Len(tasks) :
          /\ tasks[i].calls = maxRetries + 1 /\ tasks[i].result = <<>>
          /\ tasks[j].lastOutcome = "error" /\ tasks[j].calls = 1
          /\ batchResults[k] # <<>>

\* C19: every funding fraction that the extraction answer gives as a whole
\* percentage (greater than 1) is divided by 100 in the returned record,
\* for a record of either source.
C19_FundingNormalized ==
    \A i \in 1..Len(tasks) :
        (tasks[i].status = "returned" /\ tasks[i].result # <<>>)
            => \A k \in 1..Len(tasks[i].answer) :
                  tasks[i].answer[k] > PercOne
                      => tasks[i].result[1].fundingSource[k] * 100
                            = tasks[i].answer[k]

(***************************************************************************)
(* One call of deduplicateInvestments (claude-api.ts 702-862): a step is   *)
(* one iteration of the loop over ministryOnly, with its arbitration call  *)
(* if one is made.                                                         *)
(***************************************************************************)
DedupeURLs == {"U1", "U2"}

\* the i-th record of a primary list whose records all resemble NameM
PrimaryRecord(i) ==
    Investment(IF i % 2 = 1 THEN "A1" ELSE "A2", "", "", NameD, BenD, 100, "none")

\* main calls deduplicateInvestments only with two non-empty lists
DedupePrimaryLists ==
    {[i \in 1..n |-> PrimaryRecord(i)] : n \in 1..MaxPrimary}
        \cup {<<Investment("A2", "", "", NameX, BenX, 500, "none")>>}

\* ministry records: extractMinistryInvestmentData keeps the reference of
\* the answer, so a record may carry a diavgeiaADA and two records may carry
\* the same ministryUrl; the ministryUrl is never empty
DedupeSecondaryPool ==
    {Investment("", "U1", "", NameM, BenD, 100, "text"),
     Investment("", "U1", "", NameX, BenX, 500, "text"),
     Investment("", "U2", "", NameM, BenD, 100, "text"),
     Investment("A1", "U2", "", NameM, BenD, 100, "text")}

DedupeSecondaryLists == SeqUpTo(DedupeSecondaryPool, MaxSecondary) \ {<<>>}

DedupeStep ==
    /\ dedupePc = "loop"
    /\ processed < Len(ministryOnly(dedupeMinistry))
    /\ LET ministryInv == ministryOnly(dedupeMinistry)[processed + 1]
       IN  IF Arbitrated(dedupeDiavgeia, ministryInv)
           THEN \E v \in Verdicts :
                    /\ verdictLog' = Append(verdictLog, v)
                    /\ arbCalls' = Append(arbCalls,
                          <<Len(potentialMatches(dedupeDiavgeia, ministryInv))>>)
           ELSE /\ verdictLog' = Append(verdictLog, Verdict("fail", FALSE, "", "low"))
                /\ arbCalls' = Append(arbCalls, <<>>)
    /\ processed' = processed + 1
    /\ UNCHANGED <<mainVars, batchVars, dedupePc, dedupeDiavgeia,
                   dedupeMinistry, dedupeOut, revisionVars, loopVars>>

DedupeReturn ==
    /\ dedupePc = "loop"
    /\ processed = Len(ministryOnly(dedupeMinistry))
    /\ dedupeOut' = deduplicateInvestments(dedupeDiavgeia, dedupeMinistry, verdictLog)
    /\ dedupePc' = "returned"
    /\ UNCHANGED <<mainVars, batchVars, dedupeDiavgeia, dedupeMinistry,
                   processed, verdictLog, arbCalls, revisionVars, loopVars>>

InitDedupe ==
    /\ MainIdle
    /\ world = NoWorld
    /\ BatchIdle
    /\ RevisionIdle
    /\ LoopIdle
    /\ dedupePc = "loop"
    /\ dedupeDiavgeia \in DedupePrimaryLists
    /\ dedupeMinistry \in DedupeSecondaryLists
    /\ processed = 0
    /\ verdictLog = <<>>
    /\ arbCalls = <<>>
    /\ dedupeOut = <<>>

NextDedupe ==
    \/ DedupeStep
    \/ DedupeReturn

SpecDedupe == InitDedupe /\ [][NextDedupe]_vars

\* the arbitration call for the k-th record of ministryOnly was made and its
\* verdict was accepted as a match
Accepted(k) ==
    /\ arbCalls[k] # <<>>
    /\ verdictLog[k].kind = "ok"
    /\ verdictLog[k].isDuplicate
    /\ verdictLog[k].matchedADA # ""
    /\ verdictLog[k].confidence # "low"

\* position in ministryOnly of the i-th ministry record (which has no code)
OnlyIdx(i) == Cardinality({j \in 1..i : dedupeMinistry[j].ada = ""})

\* the shortlist of a ministry record is empty: no primary record resembles it
ShortlistEmpty(ministryInv) ==
    \A d \in Range(dedupeDiavgeia) :
        /\ ~nameMatch(d.name, ministryInv.name)
        /\ ~nameMatch(d.beneficiary, ministryInv.beneficiary)
        /\ ~amountSimilar(d.totalAmount, ministryInv.totalAmount)

\* C15: the list returned by deduplicateInvestments starts with the primary
\* list, same records, same order, unchanged, followed only by records of
\* the secondary list, whatever the verdicts or failures.
C15_PrimaryPrefix ==
    dedupePc = "returned" =>
        /\ Len(dedupeOut) >= Len(dedupeDiavgeia)
        /\ SubSeq(dedupeOut, 1, Len(dedupeDiavgeia)) = dedupeDiavgeia
        /\ \A k \in (Len(dedupeDiavgeia) + 1)..Len(dedupeOut) :
              dedupeOut[k] \in Range(dedupeMinistry)

C15_Witness ==
    /\ dedupePc = "returned"
    /\ Len(dedupeDiavgeia) >= 2
    /\ Len(dedupeMinistry) = 2
    /\ Len(dedupeOut) = Len(dedupeDiavgeia) + 1
    /\ \E k \in 1..Len(verdictLog) : Accepted(k)

\* C16: a secondary-set candidate (a ministry record without a registry
\* code) is dropped from the output if and only if its own arbitration
\* verdict says isDuplicate with a matched code and a confidence other than
\* low.
C16_DroppedIffMatched ==
    dedupePc = "returned" =>
        \A k \in 1..Len(ministryOnly(dedupeMinistry)) :
            (ministryOnly(dedupeMinistry)[k] \notin Range(dedupeOut))
                <=> Accepted(k)

\* C17: every secondary record that arbitration did not match as a
\* duplicate is in the output, the records that carry a registry code
\* included.
C17_UnmatchedKept ==
    dedupePc = "returned" =>
        \A i \in 1..Len(dedupeMinistry) :
            ~(dedupeMinistry[i].ada = "" /\ Accepted(OnlyIdx(i)))
                => dedupeMinistry[i] \in Range(dedupeOut)

\* C18: for every secondary-set candidate gone through the loop, no
\* arbitration call was made when its shortlist is empty and exactly one
\* otherwise, and no call was given more than shortlistCap entries.
C18_ArbitrationCalls ==
    /\ Len(arbCalls) = processed
    /\ \A k \in 1..processed :
          /\ Len(arbCalls[k]) =
                IF ShortlistEmpty(ministryOnly(dedupeMinistry)[k]) THEN 0 ELSE 1
          /\ \A c \in 1..Len(arbCalls[k]) : arbCalls[k][c] <= shortlistCap

C18_Witness ==
    /\ dedupePc = "returned"
    /\ Len(dedupeDiavgeia) > shortlistCap
    /\ \E j, k \in 1..processed :
          /\ arbCalls[j] = <<>>
          /\ arbCalls[k] = <<shortlistCap>>

(***************************************************************************)
(* One call of checkIfRevision (diavgeia-api.ts 9-107): the checks on the  *)
(* metadata, then the corrected-version lookup if it is made.              *)
(***************************************************************************)
\* decisions of the Diavgeia search: subject with or without a revision
\* keyword and ADA-shaped tokens, with or without correctedVersionId and
\* relatedDecisions (registry codes, never empty strings)
RevisionPool ==
    {Decision(a, kw, sadas, cvid, related) :
        a \in ADAs, kw \in BOOLEAN,
        sadas \in {<<>>, <<"A2">>, <<"A1", "A2">>},
        cvid \in BOOLEAN,
        related \in {<<>>, <<"A1">>, <<"A2", "A1">>}}

\* answers of axios.get for the corrected version: the call throws, the
\* document has no ada, the document has an ada
LookupResponses ==
    {[kind |-> "error", ada |-> ""], [kind |-> "ok", ada |-> ""]}
        \cup {[kind |-> "ok", ada |-> a] : a \in ADAs}

\* variant: the error of the lookup is not caught
lookupCatch_rethrow(response) ==
    [pc |-> IF response.kind = "error" THEN "thrown" ELSE "returned",
     ada |-> response.ada]

\* lines 79-87: the try around the lookup; its catch only warns
lookupCatch(response) ==
    [pc |-> "returned",
     ada |-> IF response.kind = "ok" THEN response.ada ELSE ""]

\* lines 19-76: everything before the lookup
RevCheck ==
    /\ revPc = "start"
    /\ IF LookupCalled(revDecision)
       THEN /\ revPc' = "lookup"
            /\ UNCHANGED revResult
       ELSE /\ revPc' = "returned"
            /\ revResult' = checkIfRevision(revDecision, "")
    /\ UNCHANGED <<mainVars, batchVars, dedupeVars, revDecision, revLookups,
                   revResponse, loopVars>>

\* lines 78-98: axios.get of the corrected version, then the return
RevLookup ==
    /\ revPc = "lookup"
    /\ \E response \in LookupResponses :
          /\ revResponse' = <<response>>
          /\ revPc' = lookupCatch(response).pc
          /\ revResult' = IF lookupCatch(response).pc = "returned"
                          THEN checkIfRevision(revDecision,
                                               lookupCatch(response).ada)
                          ELSE <<>>
    /\ revLookups' = revLookups + 1
    /\ UNCHANGED <<mainVars, batchVars, dedupeVars, revDecision, loopVars>>

InitRevision ==
    /\ MainIdle
    /\ world = NoWorld
    /\ BatchIdle
    /\ DedupeIdle
    /\ LoopIdle
    /\ revPc = "start"
    /\ revDecision \in RevisionPool
    /\ revLookups = 0
    /\ revResult = <<>>
    /\ revResponse = <<>>

NextRevision ==
    \/ RevCheck
    \/ RevLookup

SpecRevision == InitRevision /\ [][NextRevision]_vars

\* C20: when relatedDecisions is present and non-empty, checkIfRevision
\* returns isRevision = true with revisesADA = the first entry of the list,
\* whatever the subject and correctedVersionId are, and makes no lookup.
C20_RelatedDecisionsFirst ==
    (revPc \in {"lookup", "returned"} /\ Len(revDecision.relatedDecisions) > 0)
        => /\ revPc = "returned"
           /\ revResult.isRevision
           /\ revResult.revisesADA = revDecision.relatedDecisions[1]
           /\ revLookups = 0

C20_Witness ==
    /\ revPc = "returned"
    /\ Len(revDecision.relatedDecisions) > 0
    /\ revDecision.subjectKw
    /\ revDecision.correctedVersionId
    /\ \E i \in 1..Len(revDecision.subjectADAs) :
          /\ revDecision.subjectADAs[i] # revDecision.ada
          /\ revDecision.subjectADAs[i] # revDecision.relatedDecisions[1]

\* the signals of a revision in the metadata of the candidate
HasSignal(decision) ==
    \/ decision.subjectKw
    \/ decision.correctedVersionId
    \/ Len(decision.relatedDecisions) > 0

\* no superseded code is resolved: no related decision, no other code in a
\* subject with a keyword, and no code from the lookup (not made, failed or
\* answered without an ada)
NoCodeResolved ==
    /\ revDecision.relatedDecisions = <<>>
    /\ \/ ~revDecision.subjectKw
       \/ \A i \in 1..Len(revDecision.subjectADAs) :
             revDecision.subjectADAs[i] = revDecision.ada
    /\ \/ revResponse = <<>>
       \/ revResponse[1].kind = "error"
       \/ revResponse[1].ada = ""

\* C21: checkIfRevision never throws; it returns isRevision = false only
\* when the candidate has no revision keyword in its subject, no
\* correctedVersionId and no related decision; when a signal is present and
\* no superseded code is resolved, the failed lookup included, it returns
\* isRevision = true with revisesADA undefined.
C21_SignalWithoutCode ==
    /\ revPc # "thrown"
    /\ revPc = "returned" =>
          /\ revResult.isRevision <=> HasSignal(revDecision)
          /\ (HasSignal(revDecision) /\ NoCodeResolved)
                => (revResult.isRevision /\ revResult.revisesADA = "")
          /\ ~HasSignal(revDecision) => revLookups = 0

C21_Witness ==
    /\ revPc = "returned"
    /\ revLookups = 1
    /\ revResponse = <<[kind |-> "error", ada |-> ""]>>
    /\ revResult.isRevision
    /\ revResult.revisesADA = ""

(***************************************************************************)
(* One call of processBatch (claude-api.ts 444-478): the for loop over the *)
(* batches, the tasks of a batch under Promise.all, and the sleep between  *)
(* two batches.  A task is one call of processFn; it may go through the    *)
(* retries of extractInvestmentData before it returns.                     *)
(***************************************************************************)
\* items.slice(i, i + batchSize), i counted from 0
BatchOf(items, i, size) == SubSeq(items, i + 1, Min(Len(items), i + size))

\* what processFn may return for an item: null or a record
ItemResults(item) == {[of |-> item, value |-> v] : v \in {"null", "record"}}

PbTask(item) ==
    [item |-> item, status |-> "running", retries |-> 0, finished |-> 0,
     result |-> <<>>]

\* variant: the results of a batch in the order the tasks finished
PromiseAll_completionOrder(batch) ==
    [k \in 1..Len(batch) |->
        LET j == CHOOSE j \in 1..Len(batch) :
                    Cardinality({u \in 1..Len(batch) :
                        batch[u].finished <= batch[j].finished}) = k
        IN  batch[j].result[1]]

\* Promise.all resolves with the results in the order of the promises
PromiseAll(batch) == [k \in 1..Len(batch) |-> batch[k].result[1]]

\* variant: the sleep follows every batch
pauseNeeded_always(i, size, n) == TRUE

\* line 472: if (i + batchSize < items.length)
pauseNeeded(i, size, n) == i + size < n

\* top of the for loop: the next batch is mapped to its promises
PbStartBatch ==
    /\ pbPc = "loop"
    /\ pbI < Len(pbItems)
    /\ pbBatch' = [k \in 1..Len(BatchOf(pbItems, pbI, pbBatchSize)) |->
                      PbTask(BatchOf(pbItems, pbI, pbBatchSize)[k])]
    /\ pbBatches' = pbBatches + 1
    /\ pbPc' = "await"
    /\ UNCHANGED <<mainVars, batchVars, dedupeVars, revisionVars, pbItems,
                   pbBatchSize, pbI, pbResults, pbProcessed, pbReturned,
                   pbSleeps, pbOvertaken>>

\* a task is rate-limited and goes into another attempt
PbTaskRetry ==
    /\ pbPc = "await"
    /\ \E k \in 1..Len(pbBatch) :
          /\ pbBatch[k].status = "running"
          /\ pbBatch[k].retries < maxRetries
          /\ pbBatch' = [pbBatch EXCEPT ![k].retries = @ + 1]
    /\ UNCHANGED <<mainVars, batchVars, dedupeVars, revisionVars, pbPc,
                   pbItems, pbBatchSize, pbI, pbResults, pbProcessed,
                   pbReturned, pbBatches, pbSleeps, pbOvertaken>>

\* processFn returns for one task of the batch, in any order
PbTaskComplete ==
    /\ pbPc = "await"
    /\ \E k \in 1..Len(pbBatch) :
          /\ pbBatch[k].status = "running"
          /\ \E r \in ItemResults(pbBatch[k].item) :
                /\ pbBatch' = [pbBatch EXCEPT ![k].status = "done",
                                              ![k].finished = pbProcessed + 1,
                                              ![k].result = <<r>>]
                /\ pbReturned' = [pbReturned EXCEPT ![pbI + k] = <<r>>]
          /\ pbOvertaken' = (pbOvertaken
                                \/ \E j \in 1..(k - 1) : pbBatch[j].status = "running")
    /\ pbProcessed' = pbProcessed + 1
    /\ UNCHANGED <<mainVars, batchVars, dedupeVars, revisionVars, pbPc,
                   pbItems, pbBatchSize, pbI, pbResults, pbBatches, pbSleeps>>

\* Promise.all resolves: results.push(...batchResults), then the sleep or
\* the next iteration
PbBatchDone ==
    /\ pbPc = "await"
    /\ \A k \in 1..Len(pbBatch) : pbBatch[k].status = "done"
    /\ pbResults' = pbResults \o PromiseAll(pbBatch)
    /\ pbBatch' = <<>>
    /\ IF pauseNeeded(pbI, pbBatchSize, Len(pbItems))
       THEN /\ pbPc' = "sleep"
            /\ UNCHANGED pbI
       ELSE /\ pbPc' = "loop"
            /\ pbI' = pbI + pbBatchSize
    /\ UNCHANGED <<mainVars, batchVars, dedupeVars, revisionVars, pbItems,
                   pbBatchSize, pbProcessed, pbReturned, pbBatches, pbSleeps,
                   pbOvertaken>>

\* sleep(1000) is over
PbWake ==
    /\ pbPc = "sleep"
    /\ pbSleeps' = pbSleeps + 1
    /\ pbI' = pbI + pbBatchSize
    /\ pbPc' = "loop"
    /\ UNCHANGED <<mainVars, batchVars, dedupeVars, revisionVars, pbItems,
                   pbBatchSize, pbBatch, pbResults, pbProcessed, pbReturned,
                   pbBatches, pbOvertaken>>

\* the loop condition fails: return results
PbReturn ==
    /\ pbPc = "loop"
    /\ pbI >= Len(pbItems)
    /\ pbPc' = "returned"
    /\ UNCHANGED <<mainVars, batchVars, dedupeVars, revisionVars, pbItems,
                   pbBatchSize, pbI, pbBatch, pbResults, pbProcessed,
                   pbReturned, pbBatches, pbSleeps, pbOvertaken>>

\* the callers pass a positive batch size (main: 3)
InitLoop ==
    /\ MainIdle
    /\ world = NoWorld
    /\ BatchIdle
    /\ DedupeIdle
    /\ RevisionIdle
    /\ pbPc = "loop"
    /\ pbItems \in {[k \in 1..n |-> k] : n \in 0..MaxItems}
    /\ pbBatchSize \in 1..batchSize
    /\ pbI = 0
    /\ pbBatch = <<>>
    /\ pbResults = <<>>
    /\ pbProcessed = 0
    /\ pbReturned = [k \in 1..Len(pbItems) |-> <<>>]
    /\ pbBatches = 0
    /\ pbSleeps = 0
    /\ pbOvertaken = FALSE

NextLoop ==
    \/ PbStartBatch
    \/ PbTaskRetry
    \/ PbTaskComplete
    \/ PbBatchDone
    \/ PbWake
    \/ PbReturn

SpecLoop == InitLoop /\ [][NextLoop]_vars

\* C22: for any item list, any positive batch size and any order in which
\* the tasks of a batch finish, processBatch returns a list as long as the
\* item list whose i-th entry is what processFn returned for the i-th item.
C22_ResultsInInputOrder ==
    pbPc = "returned" =>
        /\ Len(pbResults) = Len(pbItems)
        /\ \A i \in 1..Len(pbItems) :
              /\ pbReturned[i] = <<pbResults[i]>>
              /\ pbResults[i].of = pbItems[i]

C22_Witness ==
    /\ pbPc = "returned"
    /\ pbOvertaken
    /\ pbBatches >= 2
    /\ Len(pbItems) % pbBatchSize # 0
    /\ \E i, j \in 1..Len(pbResults) :
          pbResults[i].value = "null" /\ pbResults[j].value = "record"

\* number of tasks in flight
InFlight == Cardinality({k \in 1..Len(pbBatch) : pbBatch[k].status = "running"})

\* C24: at most batchSize (3) tasks are in flight at any time; a batch is
\* started only when every item of the batches before it has completed and
\* the pause after each of them has elapsed; nothing is in flight during a
\* pause; no pause follows the last batch.
C24_BatchesInSequence ==
    /\ InFlight <= batchSize
    /\ pbPc = "await" =>
          /\ Len(pbResults) = pbI
          /\ pbI = (pbBatches - 1) * pbBatchSize
          /\ pbSleeps = pbBatches - 1
    /\ pbPc = "sleep" =>
          /\ InFlight = 0
          /\ pbSleeps = pbBatches - 1
          /\ Len(pbResults) < Len(pbItems)
    /\ pbPc = "returned" =>
          /\ InFlight = 0
          /\ pbSleeps = IF pbBatches = 0 THEN 0 ELSE pbBatches - 1

C24_Witness ==
    /\ pbPc = "returned"
    /\ pbBatchSize = batchSize
    /\ pbBatches = 2
    /\ pbSleeps = 1

RECURSIVE Pow2(_)
\* 2^n
Pow2(n) == IF n = 0 THEN 1 ELSE 2 * Pow2(n - 1)

\* C23: the wait before the k-th retry (k = 1..5) of an extraction is the
\* delay of the retry-after header when the 429 response carries one, and
\* 2000 * 2^(k-1) ms otherwise; the computed delay doubles at every retry,
\* the retries that waited the server's delay included.
C23_BackoffSchedule ==
    \A i \in 1..Len(tasks) :
        LET t == tasks[i]
        IN  /\ t.backoffTime = 2000 * Pow2(t.retryCount)
            /\ t.retryCount >= 1 =>
                  t.lastWait = IF t.lastHeader # <<>>
                               THEN 7000
                               ELSE 2000 * Pow2(t.retryCount - 1)

C23_Witness ==
    \E i, j \in 1..Len(tasks) :
        /\ tasks[i].retryCount = maxRetries
        /\ tasks[i].lastHeader = <<>>
        /\ tasks[i].lastWait = 32000
        /\ tasks[j].retryCount = 3
        /\ tasks[j].lastHeader = <<7>>
        /\ tasks[j].lastWait = 7000
        /\ tasks[j].backoffTime = 16000

RECURSIVE IsSubsequence(_, _)
\* s is t with some of its elements left out
IsSubsequence(s, t) ==
    IF s = <<>> THEN TRUE
    ELSE IF t = <<>> THEN FALSE
    ELSE IF Head(s) = Head(t) THEN IsSubsequence(Tail(s), Tail(t))
    ELSE IsSubsequence(s, Tail(t))

\* C25: extractInvestmentData is called only for candidates of this run's
\* candidate list whose code is in the classifier's answer and is not the
\* superseded code of a revision edge; a code of the answer that matches no
\* candidate is never extracted; the relevance-filtered list is a
\* subsequence of the candidate list.
C25_ExtractOnlySurvivors ==
    /\ extractCalls \subseteq
          ({d.ada : d \in Range(decisionsToProcess)} \cap relevantADAs)
              \ MapKeys(revisionsMap)
    /\ extractCalls \subseteq {d.ada : d \in Range(decisions)}
    /\ IsSubsequence(relevantDecisions, decisionsToProcess)
    /\ IsSubsequence(filteredDecisions, relevantDecisions)

C25_Witness ==
    /\ pc = "done"
    /\ extractCalls # {}
    /\ \E d \in Range(relevantDecisions) :
          MapHas(revisionsMap, d.ada) /\ d.ada \notin extractCalls
    /\ Len(decisionsToProcess) = MaxDecisions

(***************************************************************************)
(* Runs in which every external call returns (an answer or an error) and   *)
(* the process is not killed: main always takes its next step.             *)
(***************************************************************************)
RunStep ==
    \/ QueryDiavgeia
    \/ CheckRevisions
    \/ ClassifyRelevance
    \/ ExtractBatch
    \/ CollectMinistry
    \/ Combine
    \/ Geocode
    \/ SaveOpen
    \/ SaveWrite
    \/ SaveError

NextLive ==
    \/ StartRun
    \/ RunStep

SpecLive == Init /\ [][NextLive]_vars /\ WF_vars(RunStep)

\* C26: if every external call returns, every run eventually reaches Done
\* (the snapshot is written) or Failed (exit code 1).
C26_RunReachesDoneOrFailed ==
    \A r \in 1..MaxRuns :
        (run = r /\ pc \notin Terminal)
            ~> (run = r /\ (pc = "failed" \/ (pc = "done" /\ written)))

\* C27: in a run with --ignore-existing the prior snapshot is not used: no
\* code is known, no candidate is skipped, and the written snapshot holds
\* exactly the records collected in this run (with the coordinates that
\* geocoding filled in), so a prior record that was not collected again is
\* absent from it.
C27_FreshStart ==
    (run > 0 /\ params.ignoreExisting) =>
        /\ existingADAs = {}
        /\ Len(decisionsToProcess) = Len(decisions)
        /\ \A i \in 1..Len(decisions) : decisionsToProcess[i].ada = decisions[i].ada
        /\ RunWritten =>
              /\ Len(file.investments) = Len(newBatch)
              /\ \A k \in 1..Len(newBatch) :
                    GeoRefines(newBatch[k], file.investments[k])
              /\ \A e \in Range(PriorInvestments) :
                    (\A n \in Range(newBatch) : ~SameIdentity(n, e))
                        => \A x \in Range(file.investments) : ~SameIdentity(x, e)

C27_Witness ==
    /\ RunWritten
    /\ params.ignoreExisting
    /\ \E d \in Range(decisions) :
          d.ada \in CodesOf(PriorInvestments) /\ d.ada \in extractCalls
    /\ \E e \in Range(PriorInvestments) :
          \A x \in Range(file.investments) : ~SameIdentity(x, e)

\* C28: no revision edge of a run has its superseded code equal to its
\* superseding code, and no relevant candidate is dropped as superseded by
\* itself.
C28_NoSelfEdge ==
    /\ \A i \in 1..Len(revisionsMap) : revisionsMap[i][1] # revisionsMap[i][2]
    /\ \A d \in Range(relevantDecisions) :
          (pc \in {"extract", "ministry", "combine", "geocode", "save",
                   "writing", "done"}
             /\ d \notin Range(filteredDecisions))
                => MapGet(revisionsMap, d.ada) # d.ada

\* the registry codes of the shortlist sent with the arbitration call
ShortlistCodes(ministryInv) ==
    {d.ada : d \in Range(potentialMatches(dedupeDiavgeia, ministryInv))}

\* C29: a secondary-set candidate is dropped from the output only when an
\* accepted arbitration verdict for its URL names the registry code of a
\* record of the shortlist the verdict was asked about; a verdict naming a
\* code outside the shortlist removes no candidate.
C29_MatchedCodeInShortlist ==
    dedupePc = "returned" =>
        \A k \in 1..Len(ministryOnly(dedupeMinistry)) :
            (ministryOnly(dedupeMinistry)[k] \notin Range(dedupeOut))
                => \E j \in 1..Len(ministryOnly(dedupeMinistry)) :
                      /\ ministryOnly(dedupeMinistry)[j].url
                            = ministryOnly(dedupeMinistry)[k].url
                      /\ Accepted(j)
                      /\ verdictLog[j].matchedADA
                            \in ShortlistCodes(ministryOnly(dedupeMinistry)[j])

\* C30: every record returned by the extraction of a primary-source
\* candidate carries the candidate's registry code, whatever code the answer
\* of the extraction call names; so the codes of a written snapshot, from
\* which the next run builds existingADAs, include the code of every
\* candidate that was extracted in the run.
C30_RecordCarriesCandidateCode ==
    /\ \A j \in 1..Len(results) :
          results[j] # <<>> => results[j][1].ada = filteredDecisions[j].ada
    /\ RunWritten =>
          \A j \in 1..Len(results) :
              results[j] # <<>>
                  => filteredDecisions[j].ada \in CodesOf(file.investments)

====
